---- MODULE Spec2Model ----
(***************************************************************************)
(* Model of the import decoder of the Studiengangsberichte dashboard       *)
(* (src/import_parser.py): the sheet path resolution, the shared-string    *)
(* table, the sheet row reader, the row decoder, the numeric coercion and  *)
(* the profile decoder; and of the selection kept by the dashboard page    *)
(* (src/main.py).                                                          *)
(*                                                                         *)
(* Representation.  A Python str is a sequence of one-character strings    *)
(* ("7,5" is <<"7", ",", "5">>, "" is <<>>).  A Python value that may be   *)
(* None is a record [tag, s]; a number is a record [tag, m, k] standing    *)
(* for m / 10^k (k = 0 for an int).  A call that may raise returns a       *)
(* record [ok, val, err]: err names the raise site.                        *)
(***************************************************************************)
EXTENDS Integers, Sequences, FiniteSets, TLC

VARIABLES zf, pc, sheet_path, shared_strings, rows, parsed, idx, result, error,
          session, sidebar, view

\* the state of the dashboard (src/main.py)
dash_vars == <<session, sidebar, view>>

vars == <<zf, pc, sheet_path, shared_strings, rows, parsed, idx, result, error,
          session, sidebar, view>>

(***************************************************************************)
(* Bounds of the model.                                                    *)
(***************************************************************************)
\* longest cell text enumerated for the numeric coercion
MaxTokenLen == 3
\* longest cell text enumerated for the profile decoder
MaxProfileLen == 4
\* most row elements in the sheet part
MaxRows == 3

(***************************************************************************)
(* Python str operations.                                                  *)
(***************************************************************************)
DigitChars == <<"0", "1", "2", "3", "4", "5", "6", "7", "8", "9">>

IsDigit(c) == \E i \in 1..10 : DigitChars[i] = c

DigitVal(c) == (CHOOSE i \in 1..10 : DigitChars[i] = c) - 1

\* str.isalpha() of one character of a cell reference, over the column letters A..T
IsAlpha(c) == c \in {"A", "B", "C", "D", "E", "F", "G", "H", "I", "J", "K", "L",
                     "M", "N", "O", "P", "Q", "R", "S", "T"}

IsSpace(c) == c = " "

RECURSIVE LStrip(_)
LStrip(s) == IF s # <<>> /\ IsSpace(s[1]) THEN LStrip(Tail(s)) ELSE s

RECURSIVE RStrip(_)
RStrip(s) ==
    IF s # <<>> /\ IsSpace(s[Len(s)]) THEN RStrip(SubSeq(s, 1, Len(s) - 1)) ELSE s

\* str.strip()
Strip(s) == RStrip(LStrip(s))

\* str.replace(a, b) for one-character a and b: every occurrence
Replace(s, a, b) == [i \in 1..Len(s) |-> IF s[i] = a THEN b ELSE s[i]]

\* c in s
Contains(s, c) == \E i \in 1..Len(s) : s[i] = c

\* index of the first occurrence of c in s (c occurs in s)
FirstIndex(s, c) == CHOOSE i \in 1..Len(s) : s[i] = c /\ \A j \in 1..(i - 1) : s[j] # c

\* str.split(sep): always at least one part
RECURSIVE Split(_, _)
Split(s, sep) ==
    IF ~Contains(s, sep) THEN <<s>>
    ELSE LET i == FirstIndex(s, sep)
         IN  <<SubSeq(s, 1, i - 1)>> \o Split(SubSeq(s, i + 1, Len(s)), sep)

\* "".join(parts)
RECURSIVE Join(_)
Join(parts) == IF parts = <<>> THEN <<>> ELSE Head(parts) \o Join(Tail(parts))

\* value of a sequence of decimal digits
RECURSIVE DecVal(_)
DecVal(ds) ==
    IF ds = <<>> THEN 0
    ELSE 10 * DecVal(SubSeq(ds, 1, Len(ds) - 1)) + DigitVal(ds[Len(ds)])

RECURSIVE StripTrailingZeros(_)
StripTrailingZeros(ds) ==
    IF ds # <<>> /\ ds[Len(ds)] = "0"
    THEN StripTrailingZeros(SubSeq(ds, 1, Len(ds) - 1)) ELSE ds

(***************************************************************************)
(* Python values and outcomes.                                             *)
(***************************************************************************)
Str(s) == [tag |-> "str", s |-> s]

PyNone == [tag |-> "None", s |-> <<>>]

\* str(value): the text of a str, "None" for None
PyStr(v) == IF v.tag = "None" THEN <<"N", "o", "n", "e">> ELSE v.s

NoneVal == [tag |-> "None", m |-> 0, k |-> 0]

FloatVal(m, k) == [tag |-> "float", m |-> m, k |-> k]

IntVal(n) == [tag |-> "int", m |-> n, k |-> 0]

Ok(v) == [ok |-> TRUE, val |-> v, err |-> "none"]

Err(e) == [ok |-> FALSE, val |-> NoneVal, err |-> e]

(***************************************************************************)
(* Numeric coercion: src/import_parser.py lines 174-197.                   *)
(***************************************************************************)
\* _normalize_text
NormalizeText(value) == Strip(PyStr(value))

\* float(text) for texts of digits, ".", a sign and blanks (no exponent, no
\* "inf"/"nan", no "_"): the decimal m / 10^k, which for the short tokens of the
\* model names one double each; any other text raises ValueError
\* the text starts with a minus sign
Negative(t) == t # <<>> /\ t[1] = "-"

\* the text without its sign
Unsigned(t) == IF t # <<>> /\ t[1] \in {"-", "+"} THEN Tail(t) ELSE t

\* where the decimal point is, or one past the end
DotIndex(body) == IF Contains(body, ".") THEN FirstIndex(body, ".") ELSE Len(body) + 1

\* the value of the digits ip before and frac after the decimal point
Decimal(neg, ip, frac) ==
    FloatVal(IF neg THEN 0 - DecVal(ip \o frac) ELSE DecVal(ip \o frac), Len(frac))

\* digits, at least one, around at most one decimal point; else ValueError
FloatOfParts(neg, ip, fp) ==
    IF /\ \A i \in 1..Len(ip) : IsDigit(ip[i])
       /\ \A i \in 1..Len(fp) : IsDigit(fp[i])
       /\ Len(ip) + Len(fp) > 0
    THEN Ok(Decimal(neg, ip, StripTrailingZeros(fp)))
    ELSE Err("NumberFormatError")

FloatOfBody(neg, body, dot) ==
    FloatOfParts(neg, SubSeq(body, 1, dot - 1), SubSeq(body, dot + 1, Len(body)))

FloatOfStripped(t) == FloatOfBody(Negative(t), Unsigned(t), DotIndex(Unsigned(t)))

PyFloat(text) == FloatOfStripped(Strip(text))

\* _parse_float: the mutant leaves the commas in place
ParseFloatNoReplace(value) == PyFloat(value)

\* _parse_float
ParseFloat(value) == PyFloat(Replace(value, ",", "."))

\* _parse_optional_float
FloatOfRaw(raw) == IF raw = <<>> THEN Ok(NoneVal) ELSE ParseFloat(raw)

ParseOptionalFloat(value) == FloatOfRaw(NormalizeText(value))

\* float.is_integer()
IsInteger(number) == number.k = 0

\* int(number) of a float: truncation toward zero
RECURSIVE Pow10(_)
Pow10(k) == IF k = 0 THEN 1 ELSE 10 * Pow10(k - 1)

Trunc(number) ==
    IF number.m >= 0 THEN number.m \div Pow10(number.k)
    ELSE 0 - ((0 - number.m) \div Pow10(number.k))

\* the mutant truncates a fractional value instead of raising
IntOfNumberTruncating(number) ==
    IF ~number.ok THEN number ELSE Ok(IntVal(Trunc(number.val)))

\* lines 179-181: is_integer() or raise, then int(number)
IntOfNumber(number) ==
    IF ~number.ok THEN number
    ELSE IF ~IsInteger(number.val) THEN Err("NonIntegerValue")
    ELSE Ok(IntVal(Trunc(number.val)))

\* the mutant decodes an empty text to zero
IntOfRawZero(raw) == IF raw = <<>> THEN Ok(IntVal(0)) ELSE IntOfNumber(ParseFloat(raw))

\* lines 176-178
IntOfRaw(raw) == IF raw = <<>> THEN Ok(NoneVal) ELSE IntOfNumber(ParseFloat(raw))

\* _parse_optional_int
ParseOptionalInt(value) == IntOfRaw(NormalizeText(value))

(***************************************************************************)
(* Profile decoder: src/import_parser.py lines 154-171.                    *)
(***************************************************************************)
\* the dict with no entries
EmptyProfile == <<>>

\* the mutant keeps the first value of a key that is already present
ProfilePutKeepFirst(profile, key, v) ==
    [x \in (DOMAIN profile) \cup {key} |-> IF x \in DOMAIN profile THEN profile[x] ELSE v]

\* profile[key] = v
ProfilePut(profile, key, v) ==
    [x \in (DOMAIN profile) \cup {key} |-> IF x = key THEN v ELSE profile[x]]

\* raw.split(";") with the fragments stripped and the empty ones left out
ProfileEntries(raw) ==
    LET parts == Split(raw, ";")
        stripped == [i \in 1..Len(parts) |-> Strip(parts[i])]
    IN  SelectSeq(stripped, LAMBDA part : part # <<>>)

\* the loop over the entries, from entry number i on with the dict built so far
\* entry.split(":", 1)[0].strip()
EntryKey(entry) == Strip(SubSeq(entry, 1, FirstIndex(entry, ":") - 1))

\* entry.split(":", 1)[1].strip()
EntryValue(entry) == Strip(SubSeq(entry, FirstIndex(entry, ":") + 1, Len(entry)))

\* lines 165-170: the raise for an entry without ":", else the coerced value
EntryOutcome(entry) ==
    IF ~Contains(entry, ":") THEN Err("ProfileFormatError")
    ELSE ParseOptionalFloat(Str(EntryValue(entry)))

RECURSIVE ProfileLoop(_, _, _)

\* the mutant leaves out an entry without ":" and goes on
ProfileStepLenient(entries, i, profile, v) ==
    IF ~v.ok /\ v.err = "ProfileFormatError" THEN ProfileLoop(entries, i + 1, profile)
    ELSE IF ~v.ok THEN v
    ELSE ProfileLoop(entries, i + 1, ProfilePut(profile, EntryKey(entries[i]), v.val))

\* one pass of the loop with the outcome v of its entry
ProfileStep(entries, i, profile, v) ==
    IF ~v.ok THEN v
    ELSE ProfileLoop(entries, i + 1, ProfilePut(profile, EntryKey(entries[i]), v.val))

\* the loop over the entries, from entry number i on with the dict built so far
ProfileLoop(entries, i, profile) ==
    IF i > Len(entries) THEN Ok(profile)
    ELSE ProfileStep(entries, i, profile, EntryOutcome(entries[i]))

\* raw[1:-1].strip() when raw starts with "{" and ends with "}"
Unbrace(raw) ==
    IF raw # <<>> /\ raw[1] = "{" /\ raw[Len(raw)] = "}"
    THEN Strip(SubSeq(raw, 2, Len(raw) - 1)) ELSE raw

\* _parse_profile
\* lines 160-171
ProfileOfBody(body) ==
    IF body = <<>> THEN Ok(EmptyProfile)
    ELSE ProfileLoop(ProfileEntries(body), 1, EmptyProfile)

\* lines 156-159
ProfileOfRaw(raw) == IF raw = <<>> THEN Ok(EmptyProfile) ELSE ProfileOfBody(Unbrace(raw))

ParseProfile(value) == ProfileOfRaw(NormalizeText(value))

(***************************************************************************)
(* Column configuration: src/import_parser.py lines 11-24.                 *)
(***************************************************************************)
COL_STUDIENGANG == <<"A">>
COL_FACHBEREICH == <<"B">>
\* the year offsets "-4", "-3", "-2", "-1" in the order the dicts list them
YearKeys == <<"-4", "-3", "-2", "-1">>
STUDIENANFANGER_COLS == <<<<"C">>, <<"D">>, <<"E">>, <<"F">>>>
IMMATRIKULIERTE_COLS == <<<<"G">>, <<"H">>, <<"I">>, <<"J">>>>
COL_VORSTUDIUM_PROFIL == <<"K">>
COL_ERFOLGSQUOTE == <<"L">>
COL_FACHSEMESTER == <<"M">>
COL_BERUFSERFAHRUNG == <<"N">>
COL_ALTER == <<"O">>
COL_DOZENTEN_HERKUNFT == <<"P">>
COL_MODULE_BELEGUNG == <<"Q">>
COL_MODULTEILNEHMER == <<"R">>
COL_MODULAUSLASTUNG == <<"S">>
COL_ANZAHL_MODULE == <<"T">>

(***************************************************************************)
(* Row decoder: src/import_parser.py lines 120-151.                        *)
(***************************************************************************)
\* row.get(col, "")
RowGet(row, col) == IF col \in DOMAIN row THEN row[col] ELSE Str(<<>>)

\* the first outcome of the sequence that raised, or the last one
RECURSIVE FirstRaise(_)
FirstRaise(outs) ==
    IF Len(outs) = 1 \/ ~Head(outs).ok THEN Head(outs) ELSE FirstRaise(Tail(outs))

\* the dict of the four decoded values, unless one of them raised
YearDict(outs) ==
    IF ~FirstRaise(outs).ok THEN FirstRaise(outs)
    ELSE Ok([key \in {YearKeys[i] : i \in 1..4} |->
                outs[CHOOSE i \in 1..4 : YearKeys[i] = key].val])

\* {key: _parse_optional_int(row.get(col, "")) for key, col in cols.items()}
YearMap(row, cols) ==
    YearDict([i \in 1..4 |-> ParseOptionalInt(RowGet(row, cols[i]))])

\* the outcomes of the field expressions of lines 127-148, in source order
FieldOutcomes(row) ==
    << YearMap(row, STUDIENANFANGER_COLS),
       YearMap(row, IMMATRIKULIERTE_COLS),
       ParseProfile(RowGet(row, COL_VORSTUDIUM_PROFIL)),
       ParseOptionalFloat(RowGet(row, COL_ERFOLGSQUOTE)),
       ParseOptionalFloat(RowGet(row, COL_FACHSEMESTER)),
       ParseOptionalFloat(RowGet(row, COL_BERUFSERFAHRUNG)),
       ParseOptionalFloat(RowGet(row, COL_ALTER)),
       ParseProfile(RowGet(row, COL_DOZENTEN_HERKUNFT)),
       ParseProfile(RowGet(row, COL_MODULE_BELEGUNG)),
       ParseProfile(RowGet(row, COL_MODULTEILNEHMER)),
       ParseOptionalFloat(RowGet(row, COL_MODULAUSLASTUNG)),
       ParseOptionalInt(RowGet(row, COL_ANZAHL_MODULE)) >>

\* StudyProgramRow(...): the first raise among the fields ends the pass
StudyProgramRow(studiengang, fachbereich, outs) ==
    IF ~FirstRaise(outs).ok
    THEN [kind |-> "raise", err |-> FirstRaise(outs).err, rec |-> <<>>]
    ELSE [kind |-> "record", err |-> "none", rec |->
            [studiengang              |-> studiengang,
             fachbereich              |-> fachbereich,
             studienanfaenger         |-> outs[1].val,
             immatrikulierte          |-> outs[2].val,
             vorstudium_profil        |-> outs[3].val,
             erfolgsquote             |-> outs[4].val,
             fachsemester             |-> outs[5].val,
             berufserfahrung          |-> outs[6].val,
             alter                    |-> outs[7].val,
             dozenten_herkunft_profil |-> outs[8].val,
             module_belegung_nach_sg  |-> outs[9].val,
             modulteilnehmer_herkunft |-> outs[10].val,
             modulauslastung          |-> outs[11].val,
             anzahl_module            |-> outs[12].val]]

\* the loop body after the primary key was found not empty
BuildRow(row, studiengang) ==
    StudyProgramRow(studiengang, NormalizeText(RowGet(row, COL_FACHBEREICH)),
                    FieldOutcomes(row))

\* the mutant decodes the other cells before it looks at the primary key
DecodeKeyedLate(row, studiengang) ==
    IF BuildRow(row, studiengang).kind = "raise" THEN BuildRow(row, studiengang)
    ELSE IF studiengang = <<>> THEN [kind |-> "skip", err |-> "none", rec |-> <<>>]
    ELSE BuildRow(row, studiengang)

\* lines 124-125: "skip" (continue) for an empty primary key, else the row
DecodeKeyed(row, studiengang) ==
    IF studiengang = <<>> THEN [kind |-> "skip", err |-> "none", rec |-> <<>>]
    ELSE BuildRow(row, studiengang)

\* one pass of the loop body: "skip" (continue), "record" (append) or "raise"
DecodeRow(row) == DecodeKeyed(row, NormalizeText(RowGet(row, COL_STUDIENGANG)))

\* rows[1:] starts at the second row
FirstDataRow == 2

(***************************************************************************)
(* The archive.  zf is the opened container: zf.workbook is the part       *)
(* xl/workbook.xml ([present, sheets], sheets the sheet elements [name,    *)
(* id]), zf.rels the part xl/_rels/workbook.xml.rels ([present, rel], rel  *)
(* the Relationship elements [Id, Target]), zf.sst the shared-string part  *)
(* ([present, si], si the string entries, each the texts of its text       *)
(* runs), zf.sheet_part the name of the worksheet part of the archive and  *)
(* zf.sheet its row elements, each a sequence of cell elements [r, t, v].  *)
(* Attributes are attrib.get(...) (a str or None); v is the value element  *)
(* ([present, text], text a str or None).                                  *)
(***************************************************************************)
Cell(r, t, v) == [r |-> r, t |-> t, v |-> v]

\* <v>text</v>
V(text) == [present |-> TRUE, text |-> Str(text)]

\* <v/>: ElementTree gives the element's text as None
VNoText == [present |-> TRUE, text |-> PyNone]

\* no value element in the cell
VMissing == [present |-> FALSE, text |-> PyNone]

(***************************************************************************)
(* Sheet path resolution: src/import_parser.py lines 80-101.               *)
(***************************************************************************)
\* sheet_name="Importtabelle" of load_latest_import_table
SheetName == <<"I", "m", "p", "o", "r", "t", "t", "a", "b", "e", "l", "l", "e">>

\* a value that "if not value" lets pass: a str that is not empty
Truthy(v) == v.tag = "str" /\ v.s # <<>>

\* lines 84-89: the id of the first sheet element of that name, None without one
RECURSIVE SheetId(_, _)
SheetId(sheets, sheet_name) ==
    IF sheets = <<>> THEN PyNone
    ELSE IF Head(sheets).name = Str(sheet_name) THEN Head(sheets).id
    ELSE SheetId(Tail(sheets), sheet_name)

\* lines 95-98: the Target of the first Relationship of that Id, None without one
RECURSIVE RelTarget(_, _)
RelTarget(rel, sheet_id) ==
    IF rel = <<>> THEN PyNone
    ELSE IF Head(rel).Id = sheet_id THEN Head(rel).Target
    ELSE RelTarget(Tail(rel), sheet_id)

\* the mutant returns the target as it stands
PathOfTargetBare(target) ==
    IF ~Truthy(target) THEN Err("RelationshipNotFound") ELSE Ok(target)

\* lines 99-101
PathOfTarget(target) ==
    IF ~Truthy(target) THEN Err("RelationshipNotFound")
    ELSE Ok(Str(<<"x", "l", "/">> \o target.s))

\* lines 90-98: zf.read of a missing part raises KeyError
PathOfSheetId(archive, sheet_id) ==
    IF ~Truthy(sheet_id) THEN Err("SheetNotFound")
    ELSE IF ~archive.rels.present THEN Err("MissingPart")
    ELSE PathOfTarget(RelTarget(archive.rels.rel, sheet_id))

\* _resolve_sheet_path
ResolveSheetPath(archive, sheet_name) ==
    IF ~archive.workbook.present THEN Err("MissingPart")
    ELSE PathOfSheetId(archive, SheetId(archive.workbook.sheets, sheet_name))

(***************************************************************************)
(* Shared strings: src/import_parser.py lines 104-117.                     *)
(***************************************************************************)
\* t.text or ""
TextOrEmpty(text) == IF text.tag = "None" THEN <<>> ELSE text.s

\* the mutant numbers the string entries from 1
ReadSharedStringsFromOne(sst) ==
    IF ~sst.present THEN <<>>
    ELSE [k \in 1..Len(sst.si) |->
            Join([j \in 1..Len(sst.si[k]) |-> TextOrEmpty(sst.si[k][j])])]

\* _read_shared_strings: the dict as a function on 0..n-1
ReadSharedStrings(sst) ==
    IF ~sst.present THEN <<>>
    ELSE [k \in 0..(Len(sst.si) - 1) |->
            Join([j \in 1..Len(sst.si[k + 1]) |-> TextOrEmpty(sst.si[k + 1][j])])]

(***************************************************************************)
(* Sheet row reader: src/import_parser.py lines 58-77.                     *)
(***************************************************************************)
\* int(value) of a str: blanks stripped, an optional sign, decimal digits
\* (no "_"); None raises TypeError, any other text ValueError
IntOfDigits(neg, body) ==
    IF body = <<>> \/ \E i \in 1..Len(body) : ~IsDigit(body[i]) THEN Err("ValueError")
    ELSE Ok(IntVal(IF neg THEN 0 - DecVal(body) ELSE DecVal(body)))

IntOfStripped(t) == IntOfDigits(Negative(t), Unsigned(t))

PyInt(value) ==
    IF value.tag = "None" THEN Err("TypeError") ELSE IntOfStripped(Strip(value.s))

\* the mutant raises for an index that is not a key of the table
SharedLookupStrict(shared, n) ==
    IF n \in DOMAIN shared THEN Ok(Str(shared[n]))
    ELSE Err("SharedStringIndexOutOfRange")

\* shared_strings.get(n, "")
SharedLookup(shared, n) ==
    Ok(Str(IF n \in DOMAIN shared THEN shared[n] ELSE <<>>))

\* value_node.text if value_node is not None else ""
CellValue(v) == IF v.present THEN v.text ELSE Str(<<>>)

\* row_data[col] = value
RowPut(row_data, col, value) ==
    [x \in (DOMAIN row_data) \cup {col} |-> IF x = col THEN value ELSE row_data[x]]

\* the loop over the cells of one row element, from cell number i on
\* "".join(ch for ch in cell_ref if ch.isalpha())
ColumnOf(cell_ref) == SelectSeq(cell_ref.s, IsAlpha)

\* lines 73-74 for a cell with the shared-string marker, index being int(value)
SharedValue(shared, index) ==
    IF ~index.ok THEN index ELSE SharedLookup(shared, index.val.m)

\* lines 72-74: the value of the cell, or the raise
CellOutcome(cell, shared) ==
    IF cell.t = Str(<<"s">>) THEN SharedValue(shared, PyInt(CellValue(cell.v)))
    ELSE Ok(CellValue(cell.v))

RECURSIVE ReadCells(_, _, _, _)

\* line 75 with the outcome of lines 72-74
StoreCell(cells, i, row_data, shared, out) ==
    IF ~out.ok THEN out
    ELSE ReadCells(cells, i + 1, RowPut(row_data, ColumnOf(cells[i].r), out.val), shared)

\* the loop over the cells of one row element, from cell number i on
ReadCells(cells, i, row_data, shared) ==
    IF i > Len(cells) THEN Ok(row_data)
    ELSE IF cells[i].r.tag = "None" \/ cells[i].r.s = <<>>
    THEN ReadCells(cells, i + 1, row_data, shared)
    ELSE StoreCell(cells, i, row_data, shared, CellOutcome(cells[i], shared))

(***************************************************************************)
(* load_latest_import_table: src/import_parser.py lines 45-48, as steps.   *)
(* pc: "open" (the archive is open), "rows" (in the loop over the row      *)
(* elements), "parse" (in the loop of _parse_import_rows), "done" (the     *)
(* list was returned), "failed" (an exception left the call).              *)
(***************************************************************************)
NoResult == [returned |-> FALSE, records |-> <<>>]

Returned(records) == [returned |-> TRUE, records |-> records]

\* the mutant hands the caller the records decoded before the failing row
RaiseKeepsParsed(records, err) ==
    [pc |-> "done", result |-> Returned(records), error |-> "none"]

\* an exception raised inside the loop is not caught: it leaves the call
RaiseInLoop(records, err) ==
    [pc |-> "failed", result |-> NoResult, error |-> err]

\* sheet_path = _resolve_sheet_path(zf, sheet_name), or the exception leaves
SheetResolved(out) ==
    IF out.ok
    THEN /\ sheet_path' = out.val
         /\ pc' = "open"
         /\ UNCHANGED error
    ELSE /\ pc' = "failed"
         /\ error' = out.err
         /\ UNCHANGED sheet_path

ResolveSheet ==
    /\ pc = "resolve"
    /\ SheetResolved(ResolveSheetPath(zf, SheetName))
    /\ UNCHANGED <<dash_vars, zf, shared_strings, rows, parsed, idx, result>>

\* shared_strings = _read_shared_strings(zf), and the sheet part is read and
\* parsed: zf.read of a part the archive does not hold raises KeyError
OpenSheet ==
    /\ pc = "open"
    /\ shared_strings' = ReadSharedStrings(zf.sst)
    /\ IF sheet_path.s = zf.sheet_part
       THEN pc' = "rows" /\ UNCHANGED error
       ELSE pc' = "failed" /\ error' = "MissingPart"
    /\ UNCHANGED <<dash_vars, zf, sheet_path, rows, parsed, idx, result>>

\* rows.append(row_data), or the exception leaves the call
RowRead(out) ==
    IF out.ok
    THEN /\ rows' = Append(rows, out.val)
         /\ UNCHANGED <<pc, error>>
    ELSE /\ pc' = "failed"
         /\ error' = out.err
         /\ UNCHANGED rows

\* one pass of the loop over the row elements
ReadRow ==
    /\ pc = "rows"
    /\ Len(rows) < Len(zf.sheet)
    /\ RowRead(ReadCells(zf.sheet[Len(rows) + 1], 1, <<>>, shared_strings))
    /\ UNCHANGED <<dash_vars, zf, sheet_path, shared_strings, parsed, idx, result>>

\* the mutant starts the loop of _parse_import_rows at the header row
ReturnRowsFromHeader ==
    /\ pc = "rows"
    /\ Len(rows) = Len(zf.sheet)
    /\ pc' = "parse"
    /\ idx' = 1
    /\ parsed' = <<>>
    /\ UNCHANGED <<dash_vars, zf, sheet_path, shared_strings, rows, result, error>>

\* return rows, and _parse_import_rows starts its loop at rows[1:]
ReturnRows ==
    /\ pc = "rows"
    /\ Len(rows) = Len(zf.sheet)
    /\ pc' = "parse"
    /\ idx' = FirstDataRow
    /\ parsed' = <<>>
    /\ UNCHANGED <<dash_vars, zf, sheet_path, shared_strings, rows, result, error>>

\* parsed.append(...), continue, or the exception leaves the call
RowParsed(out) ==
    IF out.kind = "raise"
    THEN /\ pc' = RaiseInLoop(parsed, out.err).pc
         /\ result' = RaiseInLoop(parsed, out.err).result
         /\ error' = RaiseInLoop(parsed, out.err).error
         /\ UNCHANGED <<parsed, idx>>
    ELSE /\ parsed' = IF out.kind = "record" THEN Append(parsed, out.rec) ELSE parsed
         /\ idx' = idx + 1
         /\ UNCHANGED <<pc, result, error>>

\* one pass of the loop of _parse_import_rows
ParseRow ==
    /\ pc = "parse"
    /\ idx <= Len(rows)
    /\ RowParsed(DecodeRow(rows[idx]))
    /\ UNCHANGED <<dash_vars, zf, sheet_path, shared_strings, rows>>

\* return parsed
ReturnParsed ==
    /\ pc = "parse"
    /\ idx > Len(rows)
    /\ pc' = "done"
    /\ result' = Returned(parsed)
    /\ UNCHANGED <<dash_vars, zf, sheet_path, shared_strings, rows, parsed, idx, error>>

(***************************************************************************)
(* The dashboard page: src/main.py.  session is st.session_state ([has,    *)
(* kind, value]: has says that the keys selected_kind and selected_value   *)
(* are set), sidebar the groups the last run of the page has drawn ([key,  *)
(* programs] in the order drawn), view what it has drawn below the title   *)
(* ([kind, value, rows, asked]: the rows handed to the overview or the row *)
(* of the program, and the selection the run has found in the session).    *)
(* import_year (line 34) is only drawn and is no part of the state.        *)
(***************************************************************************)
\* the characters of code points 32 to 126, in their order (34, 92 and 96 by name)
CodePoints ==
    << " ", "!", "quote", "#", "$", "%", "&", "'", "(", ")", "*", "+", ",",
       "-", ".", "/", "0", "1", "2", "3", "4", "5", "6", "7", "8", "9",
       ":", ";", "<", "=", ">", "?", "@", "A", "B", "C", "D", "E", "F",
       "G", "H", "I", "J", "K", "L", "M", "N", "O", "P", "Q", "R", "S",
       "T", "U", "V", "W", "X", "Y", "Z", "[", "backslash", "]", "^", "_", "grave",
       "a", "b", "c", "d", "e", "f", "g", "h", "i", "j", "k", "l", "m",
       "n", "o", "p", "q", "r", "s", "t", "u", "v", "w", "x", "y", "z",
       "{", "|", "}", "~" >>

\* ord(c)
Ord(c) == 31 + (CHOOSE i \in 1..Len(CodePoints) : CodePoints[i] = c)

\* str.lower()
Lower(s) == [i \in 1..Len(s) |-> IF Ord(s[i]) \in 65..90 THEN CodePoints[Ord(s[i]) + 1] ELSE s[i]]

\* a < b of two str
RECURSIVE StrLess(_, _)
StrLess(a, b) ==
    IF a = <<>> THEN b # <<>>
    ELSE IF b = <<>> THEN FALSE
    ELSE IF a[1] = b[1] THEN StrLess(Tail(a), Tail(b))
    ELSE Ord(a[1]) < Ord(b[1])

RECURSIVE Insert(_, _)
Insert(x, seq) ==
    IF seq = <<>> THEN <<x>>
    ELSE IF StrLess(x, Head(seq)) THEN <<x>> \o seq
    ELSE <<Head(seq)>> \o Insert(x, Tail(seq))

\* sorted(values) of a list of str
RECURSIVE Sorted(_)
Sorted(seq) ==
    IF seq = <<>> THEN <<>>
    ELSE Insert(seq[Len(seq)], Sorted(SubSeq(seq, 1, Len(seq) - 1)))

\* the least str of a set
MinStr(S) == CHOOSE x \in S : \A y \in S : x = y \/ StrLess(x, y)

\* the keys of a dict in sorted order
RECURSIVE SortedKeys(_)
SortedKeys(S) ==
    IF S = {} THEN <<>> ELSE <<MinStr(S)>> \o SortedKeys(S \ {MinStr(S)})

HIDDEN_STUDY_PROGRAMS == {<<"M", "a", "s", "t", "e", "r", " ", "i", "n", " ", "B", "u", "s", "i", "n", "e", "s", "s", " ", "M", "a", "n", "a", "g", "e", "m", "e", "n", "t", " ", "(", "a", "u", "s", "l", "a", "u", "f", "e", "n", "d", ")">>}

NO_FACHBEREICH == <<"O", "h", "n", "e", " ", "F", "a", "c", "h", "b", "e", "r", "e", "i", "c", "h">>

\* _filter_hidden_study_programs
FilterHiddenStudyPrograms(data, hidden_programs) ==
    IF hidden_programs = {} THEN data
    ELSE SelectSeq(data, LAMBDA row :
            Lower(Strip(row.studiengang)) \notin
                {Lower(Strip(name)) : name \in {h \in hidden_programs : Strip(h) # <<>>}})

\* row.fachbereich or "Ohne Fachbereich"
GroupKey(row) == IF row.fachbereich = <<>> THEN NO_FACHBEREICH ELSE row.fachbereich

\* groups[key], sorted
ProgramsOf(data, key) ==
    Sorted([i \in 1..Len(SelectSeq(data, LAMBDA row : GroupKey(row) = key)) |->
               SelectSeq(data, LAMBDA row : GroupKey(row) = key)[i].studiengang])

GroupsOf(data, keys) ==
    [i \in 1..Len(keys) |-> [key |-> keys[i], programs |-> ProgramsOf(data, keys[i])]]

\* _group_by_fachbereich
GroupByFachbereich(data) ==
    GroupsOf(data, SortedKeys({GroupKey(data[i]) : i \in 1..Len(data)}))

\* the keys of fachbereich_by_program
ProgramNames(data) == {data[i].studiengang : i \in 1..Len(data)}

HasKey(fachbereiche, key) == \E i \in 1..Len(fachbereiche) : fachbereiche[i].key = key

Selection(kind, value) == [kind |-> kind, value |-> value]

\* fachbereiche[next(iter(fachbereiche))][0]
FirstProgram(fachbereiche) == fachbereiche[1].programs[1]

\* the mutant returns the selection of the session as it stands
NormalizeSelectionKeep(fachbereiche, programs, selected_kind, selected_value) ==
    Selection(selected_kind, selected_value)

\* _normalize_selection; the values the session holds are all str
NormalizeSelection(fachbereiche, programs, selected_kind, selected_value) ==
    IF selected_kind = "fachbereich" /\ HasKey(fachbereiche, selected_value)
    THEN Selection(selected_kind, selected_value)
    ELSE IF selected_kind = "program" /\ selected_value \in programs
    THEN Selection(selected_kind, selected_value)
    ELSE Selection("program", FirstProgram(fachbereiche))

NoSession == [has |-> FALSE, kind |-> "none", value |-> <<>>]

NoView == [kind |-> "none", value |-> <<>>, rows |-> <<>>, asked |-> NoSession]

\* main, lines 37-47: the selection of this run
SelectionOfRun(fachbereiche, data) ==
    IF ~session.has THEN Selection("program", FirstProgram(fachbereiche))
    ELSE NormalizeSelection(fachbereiche, ProgramNames(data), session.kind, session.value)

\* main, lines 81-85: the rows of the overview, or the row of the program;
\* next(...) of a generator that yields nothing raises StopIteration
ViewOf(data, sel) ==
    IF sel.kind = "fachbereich"
    THEN [kind |-> "fachbereich", value |-> sel.value, asked |-> session,
          rows |-> SelectSeq(data, LAMBDA item : item.fachbereich = sel.value)]
    ELSE IF sel.value \in ProgramNames(data)
    THEN [kind |-> "program", value |-> sel.value, asked |-> session,
          rows |-> <<SelectSeq(data, LAMBDA item : item.studiengang = sel.value)[1]>>]
    ELSE [kind |-> "StopIteration", value |-> sel.value, asked |-> session, rows |-> <<>>]

\* main, lines 35-92 with the data of the import
ShowPage(data, fachbereiche, sel) ==
    /\ session' = [has |-> TRUE, kind |-> sel.kind, value |-> sel.value]
    /\ sidebar' = fachbereiche
    /\ view' = ViewOf(data, sel)

\* main, lines 28-32
PageOf(data) ==
    IF data = <<>>
    THEN /\ view' = [NoView EXCEPT !.kind = "warning"]
         /\ sidebar' = <<>>
         /\ UNCHANGED session
    ELSE ShowPage(data, GroupByFachbereich(data),
                  SelectionOfRun(GroupByFachbereich(data), data))

\* main once load_latest_import_table has returned
RenderPage ==
    /\ pc = "done"
    /\ pc' = "page"
    /\ PageOf(FilterHiddenStudyPrograms(result.records, HIDDEN_STUDY_PROGRAMS))
    /\ UNCHANGED <<zf, sheet_path, shared_strings, rows, parsed, idx, result, error>>

\* the buttons of the sidebar: every program but the selected one
ProgramButtons ==
    UNION {{sidebar[i].programs[j] : j \in 1..Len(sidebar[i].programs)} : i \in 1..Len(sidebar)}

\* a click on the button of a program: _select_program, and the page runs again
SelectProgram ==
    /\ pc = "page"
    /\ \E program \in ProgramButtons :
          /\ ~(session.kind = "program" /\ session.value = program)
          /\ session' = [has |-> TRUE, kind |-> "program", value |-> program]
    /\ pc' = "rerun"
    /\ UNCHANGED <<zf, sheet_path, shared_strings, rows, parsed, idx, result, error,
                   sidebar, view>>

\* a click on the button of an overview: _select_fachbereich, and the page runs
\* again
SelectFachbereich ==
    /\ pc = "page"
    /\ \E i \in 1..Len(sidebar) :
          /\ ~(session.kind = "fachbereich" /\ session.value = sidebar[i].key)
          /\ session' = [has |-> TRUE, kind |-> "fachbereich", value |-> sidebar[i].key]
    /\ pc' = "rerun"
    /\ UNCHANGED <<zf, sheet_path, shared_strings, rows, parsed, idx, result, error,
                   sidebar, view>>

\* the script starts again on the archive that is the latest import by then
RunAgain(archive) ==
    /\ pc \in {"page", "rerun", "failed"}
    /\ zf' = archive
    /\ pc' = "resolve"
    /\ sheet_path' = PyNone
    /\ shared_strings' = <<>>
    /\ rows' = <<>>
    /\ parsed' = <<>>
    /\ idx' = 0
    /\ result' = NoResult
    /\ error' = "none"
    /\ sidebar' = <<>>
    /\ view' = NoView
    /\ UNCHANGED session

Next == ResolveSheet \/ OpenSheet \/ ReadRow \/ ReturnRows \/ ParseRow \/ ReturnParsed

\* the state once the archive is open
Opened(archive) ==
    /\ zf = archive
    /\ pc = "resolve"
    /\ sheet_path = PyNone
    /\ session = NoSession
    /\ sidebar = <<>>
    /\ view = NoView
    /\ shared_strings = <<>>
    /\ rows = <<>>
    /\ parsed = <<>>
    /\ idx = 0
    /\ result = NoResult
    /\ error = "none"

\* _read_sheet_rows as one call on rows that raise nothing: the rows it returns
ReadSheetRows(archive) ==
    [i \in 1..Len(archive.sheet) |->
        ReadCells(archive.sheet[i], 1, <<>>, ReadSharedStrings(archive.sst)).val]

\* the state when _read_sheet_rows has returned and _parse_import_rows starts
Reading(archive) ==
    /\ zf = archive
    /\ pc = "parse"
    /\ session = NoSession
    /\ sidebar = <<>>
    /\ view = NoView
    /\ sheet_path = ResolveSheetPath(archive, SheetName).val
    /\ shared_strings = ReadSharedStrings(archive.sst)
    /\ rows = ReadSheetRows(archive)
    /\ parsed = <<>>
    /\ idx = FirstDataRow
    /\ result = NoResult
    /\ error = "none"

(***************************************************************************)
(* Inputs.                                                                 *)
(***************************************************************************)
\* all sequences over S of length at most n
RECURSIVE SeqsUpTo(_, _)
SeqsUpTo(S, n) ==
    IF n = 0 THEN {<<>>}
    ELSE LET shorter == SeqsUpTo(S, n - 1)
         IN  shorter \cup {Append(t, c) : t \in shorter, c \in S}

SheetPart == <<"x", "l", "/", "w", "o", "r", "k", "s", "h", "e", "e", "t", "s", "/", "s", "h", "e", "e", "t", "1", ".", "x", "m", "l">>

\* the workbook part with the one sheet "Importtabelle"
OneSheet == [present |-> TRUE, sheets |-> <<[name |-> Str(SheetName), id |-> Str(<<"r", "I", "d", "1">>)]>>]

\* the relationship part that sends its id to the worksheet part
OneRel == [present |-> TRUE,
           rel |-> <<[Id |-> Str(<<"r", "I", "d", "1">>), Target |-> Str(<<"w", "o", "r", "k", "s", "h", "e", "e", "t", "s", "/", "s", "h", "e", "e", "t", "1", ".", "x", "m", "l">>)]>>]

\* an archive whose sheet "Importtabelle" resolves to its worksheet part
Archive(sst, sheet) ==
    [workbook |-> OneSheet, rels |-> OneRel, sst |-> sst,
     sheet_part |-> SheetPart, sheet |-> sheet]

\* a cell of column col in sheet row 2 holding the literal text
Lit(col, text) == Cell(Str(col \o <<"2">>), PyNone, V(text))

NoSst == [present |-> FALSE, si |-> <<>>]

HeaderRow == <<Cell(Str(<<"A", "1">>), PyNone, V(<<"N", "a", "m", "e">>))>>

\* the row elements of the sheets of Spec: rows that decode, rows that are
\* dropped, rows that raise, and header rows no data row could decode
SheetRows ==
    { <<Lit(<<"A">>, <<"P">>)>>,
      <<Lit(<<"A">>, <<" ", "Q">>), Lit(<<"B">>, <<"F">>), Lit(<<"C">>, <<"7">>),
        Lit(<<"K">>, <<"{", "A", ":", "1", "}">>), Lit(<<"L">>, <<"7", ",", "5">>)>>,
      <<Lit(<<"A">>, <<"R">>), Lit(<<"T">>, <<"7", ".", "0">>)>>,
      <<Lit(<<"A">>, <<" ">>), Lit(<<"C">>, <<"7", ".", "5">>),
        Lit(<<"K">>, <<"A">>), Lit(<<"L">>, <<"x">>)>>,
      <<Lit(<<"C">>, <<"x">>)>>,
      <<>>,
      <<Lit(<<"A">>, <<"P">>), Lit(<<"C">>, <<"7", ".", "5">>)>>,
      <<Lit(<<"A">>, <<"Q">>), Lit(<<"L">>, <<"x">>)>>,
      <<Lit(<<"A">>, <<"R">>), Lit(<<"K">>, <<"A">>)>> }

Sheets == SeqsUpTo(SheetRows, MaxRows)

Init == \E sheet \in Sheets : Opened(Archive(NoSst, sheet))

Spec == Init /\ [][Next]_vars

(***************************************************************************)
(* SpecCells: the sheet row reader on every row of at most MaxCells cells  *)
(* over a small set of cell elements, with and without a shared-string     *)
(* part.                                                                   *)
(***************************************************************************)
\* most cell elements in the data row
MaxCells == 2

CellRefs == {PyNone, Str(<<"A", "2">>), Str(<<"C", "2">>)}

CellTypes == {PyNone, Str(<<"s">>)}

CellValues == {VMissing, VNoText, V(<<"0">>), V(<<"7">>), V(<<"x">>)}

Cells == {Cell(r, t, v) : r \in CellRefs, t \in CellTypes, v \in CellValues}

\* a shared-string part with the one entry "P", its text in two runs
OneString == [present |-> TRUE, si |-> << <<Str(<<"P">>), PyNone>> >>]

InitCells ==
    \E sst \in {NoSst, OneString} : \E cells \in SeqsUpTo(Cells, MaxCells) :
        Opened(Archive(sst, <<HeaderRow, cells>>))

SpecCells == InitCells /\ [][Next]_vars

(***************************************************************************)
(* SpecWorkbook: the whole load on archives whose workbook part holds at   *)
(* most MaxSheets sheet elements and whose relationship part holds at most *)
(* MaxRels Relationship elements, either part possibly missing.  The       *)
(* archive holds the one worksheet part SheetPart.                         *)
(***************************************************************************)
\* most sheet elements in the workbook part
MaxSheets == 2
\* most Relationship elements in the relationship part
MaxRels == 2

RId1 == Str(<<"r", "I", "d", "1">>)

RId2 == Str(<<"r", "I", "d", "2">>)

Target1 == Str(<<"w", "o", "r", "k", "s", "h", "e", "e", "t", "s", "/", "s", "h", "e", "e", "t", "1", ".", "x", "m", "l">>)

Target2 == Str(<<"w", "o", "r", "k", "s", "h", "e", "e", "t", "s", "/", "s", "h", "e", "e", "t", "2", ".", "x", "m", "l">>)

SheetElement(name, id) == [name |-> name, id |-> id]

Relationship(id, target) == [Id |-> id, Target |-> target]

\* sheet elements of the requested name with and without an id, of a name that
\* differs in case only, and without a name
SheetElements ==
    { SheetElement(Str(SheetName), RId1),
      SheetElement(Str(SheetName), RId2),
      SheetElement(Str(SheetName), PyNone),
      SheetElement(Str(SheetName), Str(<<>>)),
      SheetElement(Str(<<"i", "m", "p", "o", "r", "t", "t", "a", "b", "e", "l", "l", "e">>), RId1),
      SheetElement(PyNone, RId2) }

\* Relationship elements with and without a target, and without an Id
RelElements ==
    { Relationship(RId1, Target1),
      Relationship(RId1, PyNone),
      Relationship(RId1, Str(<<>>)),
      Relationship(RId2, Target2),
      Relationship(RId2, Target1),
      Relationship(PyNone, Target1) }

WorkbookParts ==
    {[present |-> FALSE, sheets |-> <<>>]} \cup
    {[present |-> TRUE, sheets |-> sh] : sh \in SeqsUpTo(SheetElements, MaxSheets)}

RelParts ==
    {[present |-> FALSE, rel |-> <<>>]} \cup
    {[present |-> TRUE, rel |-> r] : r \in SeqsUpTo(RelElements, MaxRels)}

InitWorkbook ==
    \E wb \in WorkbookParts : \E rl \in RelParts :
        Opened([workbook |-> wb, rels |-> rl, sst |-> NoSst, sheet_part |-> SheetPart,
                sheet |-> <<HeaderRow, <<Lit(<<"A">>, <<"P">>)>>>>])

SpecWorkbook == InitWorkbook /\ [][Next]_vars

(***************************************************************************)
(* SpecStrings: the whole load on archives whose shared-string part, when  *)
(* there is one, holds at most MaxStrings string entries, and whose data   *)
(* row holds two shared-string cells.                                      *)
(***************************************************************************)
\* most string entries in the shared-string part
MaxStrings == 2

\* string entries: without a text run, with an empty one (<t/> and <t></t> both
\* give None as text), with one run and with several
StringEntries ==
    { <<>>,
      <<PyNone>>,
      <<Str(<<"P">>)>>,
      <<Str(<<"P">>), Str(<<"Q">>)>>,
      <<Str(<<"Q">>), PyNone, Str(<<" ">>), Str(<<"P">>)>>,
      <<Str(<<"7">>)>> }

SharedStringParts ==
    {NoSst} \cup {[present |-> TRUE, si |-> si] : si \in SeqsUpTo(StringEntries, MaxStrings)}

\* the index texts of the shared-string cells
IndexTexts == {<<"0">>, <<"1">>, <<" ", "2">>}

\* a shared-string cell of column col in sheet row 2
Shared(col, index) == Cell(Str(col \o <<"2">>), Str(<<"s">>), V(index))

InitStrings ==
    \E sst \in SharedStringParts : \E a \in IndexTexts : \E c \in IndexTexts :
        Opened(Archive(sst, <<HeaderRow, <<Shared(<<"A">>, a), Shared(<<"C">>, c)>>>>))

SpecStrings == InitStrings /\ [][Next]_vars

(***************************************************************************)
(* SpecDashboard: the page of the dashboard, run again and again on        *)
(* archives whose sheet holds at most MaxPrograms data rows, with clicks   *)
(* on the buttons of the sidebar in between.                               *)
(***************************************************************************)
\* most data rows in the sheet of an archive the page loads
MaxPrograms == 2

\* a program named in upper and lower case as the hidden one is, with blanks
HiddenName == <<" ", "M", "A", "S", "T", "E", "R", " ", "i", "n", " ", "B", "u", "s", "i", "n", "e", "s", "s", " ", "M", "a", "n", "a", "g", "e", "m", "e", "n", "t", " ", "(", "A", "u", "s", "l", "a", "u", "f", "e", "n", "d", ")", " ">>

\* data rows: programs of two categories and of none, a hidden program, and a
\* row that fails the load
DashRows ==
    { <<Lit(<<"A">>, <<"P">>), Lit(<<"B">>, <<"F">>)>>,
      <<Lit(<<"A">>, <<"Q">>), Lit(<<"B">>, <<"F">>)>>,
      <<Lit(<<"A">>, <<"R">>)>>,
      <<Lit(<<"A">>, <<"S">>), Lit(<<"B">>, <<"G">>)>>,
      <<Lit(<<"A">>, HiddenName), Lit(<<"B">>, <<"F">>)>>,
      <<Lit(<<"A">>, <<"P">>), Lit(<<"C">>, <<"x">>)>> }

DashArchives ==
    {Archive(NoSst, <<HeaderRow>> \o data) : data \in SeqsUpTo(DashRows, MaxPrograms)}

InitDashboard == \E archive \in DashArchives : Opened(archive)

NextDashboard ==
    \/ ResolveSheet
    \/ OpenSheet
    \/ ReadRow
    \/ ReturnRows
    \/ ParseRow
    \/ ReturnParsed
    \/ RenderPage
    \/ SelectProgram
    \/ SelectFachbereich
    \/ \E archive \in DashArchives : RunAgain(archive)

SpecDashboard == InitDashboard /\ [][NextDashboard]_vars

(***************************************************************************)
(* SpecNumeric: the row decoder on a header row and one data row that      *)
(* holds one text in one column: every text of at most MaxTokenLen         *)
(* characters, in every integer and float column and, as a whole cell and  *)
(* as the value of an entry "A:...", in every profile column.              *)
(***************************************************************************)
NextDecode == ParseRow \/ ReturnParsed

IntCols == {STUDIENANFANGER_COLS[i] : i \in 1..4} \cup
           {IMMATRIKULIERTE_COLS[i] : i \in 1..4} \cup {COL_ANZAHL_MODULE}

FloatCols == {COL_ERFOLGSQUOTE, COL_FACHSEMESTER, COL_BERUFSERFAHRUNG, COL_ALTER,
              COL_MODULAUSLASTUNG}

ProfileCols == {COL_VORSTUDIUM_PROFIL, COL_DOZENTEN_HERKUNFT, COL_MODULE_BELEGUNG,
                COL_MODULTEILNEHMER}

TokenChars == {" ", "-", "0", "5", "7", ".", ",", "x"}

Tokens == SeqsUpTo(TokenChars, MaxTokenLen)

\* the sheet with the header row and the data row "P" with text in column col
OneCellSheet(col, text) ==
    Archive(NoSst, <<HeaderRow, <<Lit(<<"A">>, <<"P">>), Lit(col, text)>>>>)

InitNumeric ==
    \E text \in Tokens :
        \/ \E col \in IntCols \cup FloatCols \cup ProfileCols :
              Reading(OneCellSheet(col, text))
        \/ \E col \in ProfileCols : Reading(OneCellSheet(col, <<"A", ":">> \o text))

SpecNumeric == InitNumeric /\ [][NextDecode]_vars

(***************************************************************************)
(* SpecProfile: the same, with every text of at most MaxProfileLen         *)
(* characters of the profile format, and some longer ones, in every        *)
(* profile column.                                                         *)
(***************************************************************************)
ProfileChars == {" ", "{", "}", ";", ":", "A", "B", "1"}

ProfileSamples ==
    { <<"{", "A", ":", "1", "0", ";", "B", ":", "2", "0", ";", "C", ":", "}">>,
      <<"A", ":", "1", "0", ";", "B", ":", "2", "0", ";", "C", ":">>,
      <<"{", " ", "A", ":", "1", ",", "5", ";", "A", ":", "2", " ", "}">>,
      <<"A", ":", "1", ";", "B", ":", ";", "A", ":">>,
      <<"A", ":", "1", ";", ";", " ", ";", "B">>,
      <<"A", ":", "1", ":", "2">> }

ProfileTexts == SeqsUpTo(ProfileChars, MaxProfileLen) \cup ProfileSamples

InitProfile ==
    \E text \in ProfileTexts : \E col \in ProfileCols : Reading(OneCellSheet(col, text))

SpecProfile == InitProfile /\ [][NextDecode]_vars

(***************************************************************************)
(* Properties.                                                             *)
(***************************************************************************)
\* the cell has a cell reference
HasRef(cell) == cell.r.tag = "str" /\ cell.r.s # <<>>

\* no later cell of the row element writes the same column
LastOfColumn(cells, j) ==
    \A k \in (j + 1)..Len(cells) :
        HasRef(cells[k]) => ColumnOf(cells[k].r) # ColumnOf(cells[j].r)

\* the text is empty after trimming
Blank(text) == \A k \in 1..Len(text) : text[k] = " "

\* the primary key of the raw row is not empty after trimming
KeyNonEmpty(row) ==
    /\ COL_STUDIENGANG \in DOMAIN row
    /\ ~Blank(PyStr(row[COL_STUDIENGANG]))

\* the numbers, in ascending order, of the rows after the first whose primary key
\* is not empty after trimming
KeptRows == SelectSeq([i \in 1..Len(rows) |-> i], LAMBDA i : i > 1 /\ KeyNonEmpty(rows[i]))

\* the row element was read to its end
RowWasRead(i) == i <= Len(rows)

\* the call failed in the sheet row reader, in row element number Len(rows) + 1
ReaderFailed == pc = "failed" /\ Len(rows) < Len(zf.sheet)

\* the call failed in the row decoder, in row number idx
DecoderFailed == pc = "failed" /\ Len(rows) = Len(zf.sheet)

\* a cell with the shared-string marker whose integer index is no key of the table
Dangling(cell) ==
    /\ HasRef(cell)
    /\ cell.t = Str(<<"s">>)
    /\ PyInt(CellValue(cell.v)).ok
    /\ PyInt(CellValue(cell.v)).val.m \notin DOMAIN ReadSharedStrings(zf.sst)

\* the reader raised on a shared-string cell whose text is no integer
RaisedOnIndexText ==
    \E j \in 1..Len(zf.sheet[Len(rows) + 1]) :
        LET cell == zf.sheet[Len(rows) + 1][j]
        IN  HasRef(cell) /\ cell.t = Str(<<"s">>) /\ ~PyInt(CellValue(cell.v)).ok

RaisingRows == {i \in 2..Len(rows) : DecodeRow(rows[i]).kind = "raise"}

FirstRaising == CHOOSE i \in RaisingRows : \A k \in RaisingRows : i <= k

\* C2: the load is all-or-nothing: the caller gets a list only if no row after the
\* first raises; when a row raises, the call ends at the first such row with that
\* row's failure and no list, whatever records were decoded before it.
C2_AllOrNothing ==
    /\ result.returned => (pc = "done" /\ error = "none" /\ RaisingRows = {})
    /\ pc = "failed" => result = NoResult
    /\ DecoderFailed => /\ RaisingRows # {}
                        /\ idx = FirstRaising
                        /\ error = DecodeRow(rows[idx]).err
    /\ (pc = "done" \/ DecoderFailed) => Len(parsed) <= idx - FirstDataRow

\* C2 witness: a row raised after a record had been decoded, and the caller got
\* no list.
C2_Witness == DecoderFailed /\ Len(parsed) >= 1 /\ result = NoResult

\* C3: when decoding succeeds the records are, in order, those of the rows after
\* the first whose primary key is not empty after trimming; a row with an empty
\* primary key gives no record and no failure, whatever its other cells hold.
C3_OrderAndSkip ==
    /\ pc = "done" =>
          /\ Len(result.records) = Len(KeptRows)
          /\ \A n \in 1..Len(KeptRows) :
                /\ result.records[n] = DecodeRow(rows[KeptRows[n]]).rec
                /\ result.records[n].studiengang =
                       Strip(rows[KeptRows[n]][COL_STUDIENGANG].s)
    /\ DecoderFailed => KeyNonEmpty(rows[idx])

\* C3 witness: a row with a blank primary key and malformed cells lies between
\* the header and a decoded row and left no trace.
C3_Witness ==
    /\ pc = "done"
    /\ Len(rows) = 3
    /\ ~KeyNonEmpty(rows[2])
    /\ <<"C">> \in DOMAIN rows[2]
    /\ ~ParseOptionalInt(rows[2][<<"C">>]).ok
    /\ Len(result.records) = 1
    /\ result.records[1].studiengang = <<"Q">>

\* C4: the first row is never decoded and never fails the load: the decoder never
\* raises on row 1, the records are as many as the rows after the first with a
\* primary key, and a sheet of at most one row gives the empty list.
C4_HeaderSkipped ==
    /\ pc \in {"parse", "done"} => idx >= 2
    /\ DecoderFailed => idx >= 2
    /\ pc = "done" => Len(result.records) = Len(KeptRows)
    /\ Len(zf.sheet) <= 1 => /\ pc # "failed"
                             /\ pc = "done" => result.records = <<>>

\* C4 witness: the only row has a primary key and a malformed integer, and the
\* load returned the empty list.
C4_Witness ==
    /\ pc = "done"
    /\ Len(rows) = 1
    /\ KeyNonEmpty(rows[1])
    /\ DecodeRow(rows[1]).kind = "raise"
    /\ result = Returned(<<>>)

\* the cell has no value text: no value element, or one without text
TextAbsent(cell) == ~cell.v.present \/ cell.v.text.tag = "None"

\* C5 as stated: every cell with a cell reference and no value text puts the empty
\* string into the row map and never fails the load; in the primary-key column the
\* row is dropped, in an integer column the value is absent.
C5_AbsentTextIsEmpty ==
    /\ \A i \in 1..Len(rows) : \A j \in 1..Len(zf.sheet[i]) :
          (HasRef(zf.sheet[i][j]) /\ TextAbsent(zf.sheet[i][j])
                                  /\ LastOfColumn(zf.sheet[i], j))
              => /\ ColumnOf(zf.sheet[i][j].r) \in DOMAIN rows[i]
                 /\ rows[i][ColumnOf(zf.sheet[i][j].r)] = Str(<<>>)
    /\ ReaderFailed =>
          \E j \in 1..Len(zf.sheet[Len(rows) + 1]) :
              /\ ~TextAbsent(zf.sheet[Len(rows) + 1][j])
              /\ zf.sheet[Len(rows) + 1][j].t = Str(<<"s">>)
    /\ \A j \in 1..Len(zf.sheet[2]) :
          (HasRef(zf.sheet[2][j]) /\ TextAbsent(zf.sheet[2][j])
                                  /\ LastOfColumn(zf.sheet[2], j)) =>
              /\ (pc = "done" /\ ColumnOf(zf.sheet[2][j].r) = COL_STUDIENGANG)
                    => result.records = <<>>
              /\ (pc = "done" /\ ColumnOf(zf.sheet[2][j].r) = <<"C">>
                              /\ Len(result.records) = 1)
                    => result.records[1].studienanfaenger["-4"] = NoneVal
              /\ DecoderFailed => ColumnOf(zf.sheet[2][j].r) # <<"C">>

(***************************************************************************)
(* Properties of the decoding of one cell, stated on the data row (row 2)  *)
(* of SpecNumeric and SpecProfile.                                         *)
(***************************************************************************)
\* the field of the record that the column is mapped to
FieldOf(rec, col) ==
    CASE col = <<"C">> -> rec.studienanfaenger["-4"]
      [] col = <<"D">> -> rec.studienanfaenger["-3"]
      [] col = <<"E">> -> rec.studienanfaenger["-2"]
      [] col = <<"F">> -> rec.studienanfaenger["-1"]
      [] col = <<"G">> -> rec.immatrikulierte["-4"]
      [] col = <<"H">> -> rec.immatrikulierte["-3"]
      [] col = <<"I">> -> rec.immatrikulierte["-2"]
      [] col = <<"J">> -> rec.immatrikulierte["-1"]
      [] col = <<"K">> -> rec.vorstudium_profil
      [] col = <<"L">> -> rec.erfolgsquote
      [] col = <<"M">> -> rec.fachsemester
      [] col = <<"N">> -> rec.berufserfahrung
      [] col = <<"O">> -> rec.alter
      [] col = <<"P">> -> rec.dozenten_herkunft_profil
      [] col = <<"Q">> -> rec.module_belegung_nach_sg
      [] col = <<"R">> -> rec.modulteilnehmer_herkunft
      [] col = <<"S">> -> rec.modulauslastung
      [] col = <<"T">> -> rec.anzahl_module

\* the loop of the decoder has passed the data row
Decoded == pc = "failed" \/ idx > 2

\* the data row gave a record
GaveRecord == idx > 2 /\ Len(parsed) = 1

\* the text of the data row in the column ("" for a missing column)
TextAt(col) == RowGet(rows[2], col).s

\* the columns of the data row that hold a cell, the primary key apart
Filled == (DOMAIN rows[2]) \ {COL_STUDIENGANG}

\* the text is "A:" and a value
IsEntryA(text) == Len(text) >= 2 /\ text[1] = "A" /\ text[2] = ":"

\* C6: in every optional integer and float column a text that is empty after
\* trimming, or a missing column, decodes to None, in a profile column to the empty
\* map, and as the value of a profile entry to None; it never raises.
C6_EmptyIsAbsent ==
    /\ GaveRecord =>
          \A col \in IntCols \cup FloatCols \cup ProfileCols :
              /\ (Blank(TextAt(col)) /\ col \notin ProfileCols)
                    => FieldOf(parsed[1], col) = NoneVal
              /\ (Blank(TextAt(col)) /\ col \in ProfileCols)
                    => FieldOf(parsed[1], col) = EmptyProfile
    /\ Decoded =>
          \A col \in ProfileCols :
              (IsEntryA(TextAt(col)) /\ Blank(SubSeq(TextAt(col), 3, Len(TextAt(col)))))
                  => /\ GaveRecord
                     /\ DOMAIN FieldOf(parsed[1], col) = {<<"A">>}
                     /\ FieldOf(parsed[1], col)[<<"A">>] = NoneVal
    /\ (Decoded /\ \A col \in Filled : Blank(TextAt(col))) => GaveRecord

\* C6 witness: a float column held only a blank, and the record has None there
\* and in the integer columns that the row lacks.
C6_Witness ==
    /\ pc = "done"
    /\ Filled = {COL_ERFOLGSQUOTE}
    /\ TextAt(COL_ERFOLGSQUOTE) = <<" ">>
    /\ result.records[1].erfolgsquote = NoneVal
    /\ result.records[1].anzahl_module = NoneVal

\* C7: in every integer column a text that parses to a number with a fractional
\* part raises NonIntegerValue, and one that parses to a number without one decodes
\* to that integer ("7.0" and "7,0" to 7): nothing is rounded or truncated.
C7_IntegerOnly ==
    Decoded =>
        \A col \in IntCols \cap Filled :
            /\ (~Blank(TextAt(col)) /\ ParseFloat(Strip(TextAt(col))).ok) =>
                  IF ParseFloat(Strip(TextAt(col))).val.k # 0
                  THEN pc = "failed" /\ error = "NonIntegerValue"
                  ELSE /\ GaveRecord
                       /\ FieldOf(parsed[1], col) =
                              IntVal(ParseFloat(Strip(TextAt(col))).val.m)
            /\ TextAt(col) \in {<<"7", ".", "0">>, <<"7", ",", "0">>}
                  => GaveRecord /\ FieldOf(parsed[1], col) = IntVal(7)
            /\ TextAt(col) \in {<<"7", ".", "5">>, <<"7", ",", "5">>}
                  => pc = "failed" /\ error = "NonIntegerValue"
            /\ GaveRecord => FieldOf(parsed[1], col).tag \in {"None", "int"}

\* C7 witness: the module count "7.5" raised NonIntegerValue.
C7_Witness ==
    /\ pc = "failed"
    /\ error = "NonIntegerValue"
    /\ Filled = {COL_ANZAHL_MODULE}
    /\ TextAt(COL_ANZAHL_MODULE) = <<"7", ".", "5">>

\* what the decoder made of the data row, in the shape of DecodeRow
Outcome ==
    IF pc = "failed" THEN [kind |-> "raise", err |-> error, rec |-> <<>>]
    ELSE IF Len(parsed) = 1 THEN [kind |-> "record", err |-> "none", rec |-> parsed[1]]
    ELSE [kind |-> "skip", err |-> "none", rec |-> <<>>]

SameOutcome(a, b) ==
    a.kind = b.kind /\ a.err = b.err /\ (a.kind = "record" => a.rec = b.rec)

\* the number of decimal points of the text
Dots(text) == Cardinality({k \in 1..Len(text) : text[k] = "."})

\* the data row with every comma of the column replaced by a dot
Dotted(col) == [rows[2] EXCEPT ![col] = Str(Replace(TextAt(col), ",", "."))]

\* C8: a text with commas decodes to the same value, or the same failure, as the
\* text with a dot for every comma; a numeric text that then has more than one
\* decimal point raises NumberFormatError.
C8_CommaAsDot ==
    Decoded =>
        \A col \in Filled :
            /\ SameOutcome(Outcome, DecodeRow(Dotted(col)))
            /\ (Dots(Replace(TextAt(col), ",", ".")) > 1
                    /\ (col \notin ProfileCols \/ IsEntryA(TextAt(col))))
                  => pc = "failed" /\ error = "NumberFormatError"

\* C8 witness: the float column "7,5" decoded to 7.5.
C8_Witness ==
    /\ pc = "done"
    /\ Filled = {COL_ERFOLGSQUOTE}
    /\ TextAt(COL_ERFOLGSQUOTE) = <<"7", ",", "5">>
    /\ result.records[1].erfolgsquote = FloatVal(75, 1)

\* the trimmed text is enclosed in a pair of braces
Braced(text) ==
    Len(Strip(text)) >= 2 /\ Strip(text)[1] = "{" /\ Strip(text)[Len(Strip(text))] = "}"

\* the trimmed text between the braces
Inner(text) == SubSeq(Strip(text), 2, Len(Strip(text)) - 1)

\* the fragments of the ';'-split body that are not empty after trimming
Fragments(text) ==
    SelectSeq(Split(IF Braced(text) THEN Strip(Inner(text)) ELSE Strip(text), ";"),
              LAMBDA f : ~Blank(f))

\* the key of a fragment with a ':': the trimmed text before the first ':'
KeyOfFragment(f) == Strip(SubSeq(f, 1, FirstIndex(f, ":") - 1))

\* the coercion of the text after the first ':'
ValueOfFragment(f) ==
    ParseOptionalFloat(Str(SubSeq(f, FirstIndex(f, ":") + 1, Len(f))))

\* the fragments without a ':'
NoColon(fr) == {n \in 1..Len(fr) : ~Contains(fr[n], ":")}

\* every fragment before the first one without a ':' has a value that coerces
ValidBefore(fr) ==
    \A m \in 1..Len(fr) :
        (\A n \in NoColon(fr) : m < n) => ValueOfFragment(fr[m]).ok

\* C9 as stated: a profile text with a fragment that is not empty after trimming
\* and holds no ':' raises ProfileFormatError.
C9_AlwaysProfileFormatError ==
    Decoded =>
        \A col \in ProfileCols \cap Filled :
            NoColon(Fragments(TextAt(col))) # {}
                => (pc = "failed" /\ error = "ProfileFormatError")

\* C9 amended: a profile text with a fragment that is not empty after trimming and
\* holds no ':' fails the decode, wherever the fragment stands: with
\* ProfileFormatError when the values of all fragments before the first such
\* fragment coerce, else with the NumberFormatError of the earlier fragment;
\* fragments that are empty after trimming are left out without a failure.
C9_FragmentWithoutColon ==
    Decoded =>
        \A col \in ProfileCols \cap Filled :
            /\ NoColon(Fragments(TextAt(col))) # {} =>
                  /\ pc = "failed"
                  /\ error = IF ValidBefore(Fragments(TextAt(col)))
                             THEN "ProfileFormatError" ELSE "NumberFormatError"
            /\ (NoColon(Fragments(TextAt(col))) = {}
                    /\ ValidBefore(Fragments(TextAt(col)))) => GaveRecord

\* C9 witness: the fragment without ':' is the last of four, after a valid one and
\* two that are empty after trimming, and ProfileFormatError was raised.
C9_Witness ==
    /\ pc = "failed"
    /\ error = "ProfileFormatError"
    /\ \E col \in ProfileCols \cap Filled :
          /\ Len(Fragments(TextAt(col))) = 2
          /\ NoColon(Fragments(TextAt(col))) = {2}
          /\ Len(Split(TextAt(col), ";")) = 4

\* the map of the fragments: the value of a key is that of its last fragment
MapOfFragments(fr) ==
    [key \in {KeyOfFragment(fr[n]) : n \in 1..Len(fr)} |->
        ValueOfFragment(fr[CHOOSE n \in 1..Len(fr) :
                              /\ KeyOfFragment(fr[n]) = key
                              /\ \A m \in (n + 1)..Len(fr) :
                                    KeyOfFragment(fr[m]) # key]).val]

ExampleProfile == <<"{", "A", ":", "1", "0", ";", "B", ":", "2", "0", ";", "C", ":", "}">>

ExampleMap ==
    [key \in {<<"A">>, <<"B">>, <<"C">>} |->
        CASE key = <<"A">> -> FloatVal(10, 0)
          [] key = <<"B">> -> FloatVal(20, 0)
          [] key = <<"C">> -> NoneVal]

\* C10: a profile text that decodes gives the map of its fragments, read left to
\* right with a later fragment of a key replacing the earlier one, after trimming
\* and the removal of one enclosing pair of braces; "{A:10;B:20;C:}" gives
\* {A: 10.0, B: 20.0, C: None}, and a braced text gives what its body gives.
C10_ProfileMap ==
    GaveRecord =>
        \A col \in ProfileCols \cap Filled :
            /\ FieldOf(parsed[1], col) = MapOfFragments(Fragments(TextAt(col)))
            /\ Braced(TextAt(col)) =>
                  SameOutcome(Outcome,
                              DecodeRow([rows[2] EXCEPT ![col] = Str(Inner(TextAt(col)))]))
            /\ TextAt(col) = ExampleProfile => FieldOf(parsed[1], col) = ExampleMap

\* C10 witness: a braced text with the key A twice decoded to the later value.
C10_Witness ==
    /\ pc = "done"
    /\ Filled = {COL_VORSTUDIUM_PROFIL}
    /\ Braced(TextAt(COL_VORSTUDIUM_PROFIL))
    /\ Len(Fragments(TextAt(COL_VORSTUDIUM_PROFIL))) = 2
    /\ DOMAIN result.records[1].vorstudium_profil = {<<"A">>}
    /\ result.records[1].vorstudium_profil[<<"A">>] = FloatVal(2, 0)

(***************************************************************************)
(* C11: sheet path resolution.                                             *)
(***************************************************************************)
\* the sheet elements whose name attribute is the requested name
Matching == {i \in 1..Len(zf.workbook.sheets) : zf.workbook.sheets[i].name = Str(SheetName)}

\* the id attribute of the first of them
MatchedId == zf.workbook.sheets[CHOOSE i \in Matching : \A j \in Matching : i <= j].id

\* the Relationship elements that carry the id
Carrying(id) == {j \in 1..Len(zf.rels.rel) : zf.rels.rel[j].Id = id}

\* the Target attribute of the first of them
CarriedTarget(id) == zf.rels.rel[CHOOSE j \in Carrying(id) : \A k \in Carrying(id) : j <= k].Target

\* _resolve_sheet_path has raised at that site
ResolveRaised(e) == pc = "failed" /\ sheet_path = PyNone /\ error = e

\* _resolve_sheet_path has returned that path
ResolveReturned(path) == pc # "resolve" /\ sheet_path = Str(path)

BothParts == zf.workbook.present /\ zf.rels.present

\* C11 as stated: with both parts in the archive, SheetNotFound is raised exactly
\* when no sheet element has the requested name; RelationshipNotFound when one
\* has but no Relationship carries its id; else "xl/" and the target of the
\* Relationship that carries the id is returned.
C11_OnlyWhenNoSheet ==
    (pc # "resolve" /\ BothParts) =>
        /\ ResolveRaised("SheetNotFound") <=> Matching = {}
        /\ (Matching # {} /\ Carrying(MatchedId) = {}) => ResolveRaised("RelationshipNotFound")
        /\ (Matching # {} /\ Carrying(MatchedId) # {}) =>
              ResolveReturned(<<"x", "l", "/">> \o CarriedTarget(MatchedId).s)

\* C11 amended: SheetNotFound is raised exactly when no sheet element has the
\* requested name or the first that has it carries no id, or an empty one;
\* RelationshipNotFound is raised exactly when that id is there and no
\* Relationship carries it or the first that carries it has no target, or an
\* empty one; else "xl/" and that target is returned.  A missing workbook part,
\* and a missing relationship part once the id is found, raise MissingPart.
C11_Resolution ==
    pc # "resolve" =>
        /\ ~zf.workbook.present => ResolveRaised("MissingPart")
        /\ zf.workbook.present =>
              (ResolveRaised("SheetNotFound") <=> (Matching = {} \/ ~Truthy(MatchedId)))
        /\ (zf.workbook.present /\ Matching # {} /\ Truthy(MatchedId) /\ ~zf.rels.present)
              => ResolveRaised("MissingPart")
        /\ (BothParts /\ Matching # {} /\ Truthy(MatchedId)) =>
              IF Carrying(MatchedId) = {} \/ ~Truthy(CarriedTarget(MatchedId))
              THEN ResolveRaised("RelationshipNotFound")
              ELSE ResolveReturned(<<"x", "l", "/">> \o CarriedTarget(MatchedId).s)

\* C11 witness: the second sheet element has the requested name, the first one a
\* name that differs in case, the second Relationship carries the id, and the
\* path of the worksheet part was returned.
C11_Witness ==
    /\ ResolveReturned(SheetPart)
    /\ Len(zf.workbook.sheets) = 2
    /\ Matching = {2}
    /\ zf.workbook.sheets[1].name.tag = "str"
    /\ Carrying(MatchedId) = {2}

(***************************************************************************)
(* C12: the shared-string table.                                           *)
(***************************************************************************)
\* the texts of the first j text runs of a string entry, one after the other
RECURSIVE RunsText(_, _)
RunsText(runs, j) ==
    IF j = 0 THEN <<>>
    ELSE RunsText(runs, j - 1) \o (IF runs[j].tag = "str" THEN runs[j].s ELSE <<>>)

\* the text of the k-th string entry of the archive, k counted from 0
EntryText(k) == RunsText(zf.sst.si[k + 1], Len(zf.sst.si[k + 1]))

\* the number of string entries of the archive
Entries == IF zf.sst.present THEN Len(zf.sst.si) ELSE 0

\* _read_shared_strings has returned
StringsRead == pc \in {"rows", "parse", "done"} \/ (pc = "failed" /\ sheet_path # PyNone)

\* the index a shared-string cell of the data row names (its text is an integer)
IndexOf(cell) == PyInt(cell.v.text).val.m

\* C12: the table has exactly the keys 0..n-1 for the n string entries of the
\* shared-string part (none when the part is absent); the value at key k is the
\* texts of the text runs of the k-th entry in document order, an entry without
\* text consuming its index with the empty text; and a shared-string cell that
\* names index k < n is read as that text.
C12_Positional ==
    StringsRead =>
        /\ DOMAIN shared_strings = 0..(Entries - 1)
        /\ \A k \in 0..(Entries - 1) : shared_strings[k] = EntryText(k)
        /\ ~zf.sst.present => shared_strings = <<>>
        /\ Len(rows) >= 2 =>
              \A j \in 1..Len(zf.sheet[2]) :
                  IndexOf(zf.sheet[2][j]) < Entries =>
                      rows[2][ColumnOf(zf.sheet[2][j].r)] =
                          Str(EntryText(IndexOf(zf.sheet[2][j])))

\* C12 witness: the first of two string entries has no text run, the second has
\* four, one of them without text; the cell of column A names index 1 and the
\* record is named by the text of the second entry.
C12_Witness ==
    /\ pc = "done"
    /\ Entries = 2
    /\ zf.sst.si[1] = <<>>
    /\ Len(zf.sst.si[2]) = 4
    /\ IndexOf(zf.sheet[2][1]) = 1
    /\ shared_strings[0] = <<>>
    /\ Len(result.records) = 1
    /\ result.records[1].studiengang = <<"Q", " ", "P">>

(***************************************************************************)
(* C13 and C14: the selection of the dashboard.                            *)
(***************************************************************************)
\* the programs the page shows: those of the import that are not hidden
Visible == FilterHiddenStudyPrograms(result.records, HIDDEN_STUDY_PROGRAMS)

\* the page has drawn its sidebar and its view
Drawn == pc = "page" /\ view.kind # "warning"

\* the categories of the programs shown, the programs of none under the sentinel
Departments ==
    {IF Visible[i].fachbereich = <<>> THEN NO_FACHBEREICH ELSE Visible[i].fachbereich :
        i \in 1..Len(Visible)}

\* the selection the run has found in the session names nothing of the data
Stale(sel) ==
    /\ sel.has
    /\ sel.kind = "fachbereich" => sel.value \notin Departments
    /\ sel.kind = "program" => \A i \in 1..Len(Visible) : Visible[i].studiengang # sel.value

\* C13: when the page is drawn the selection of the session is a department of
\* the grouping of the data shown, or a program of the data shown, whatever was
\* clicked and whatever the import held before; the row of a selected program
\* is found.
C13_SelectionValid ==
    Drawn =>
        /\ session.has
        /\ \/ session.kind = "fachbereich" /\ session.value \in Departments
           \/ /\ session.kind = "program"
              /\ \E i \in 1..Len(Visible) : Visible[i].studiengang = session.value
        /\ session.kind = "fachbereich" => HasKey(sidebar, session.value)
        /\ view.kind # "StopIteration"
        /\ view.kind = "program" =>
              (session.kind = "program" /\ view.rows[1].studiengang = session.value)

\* C13 witness: the run found in the session the overview of a department that
\* the data no longer holds, and the page shows a program of the data.
C13_Witness ==
    /\ Drawn
    /\ view.asked.kind = "fachbereich"
    /\ Stale(view.asked)
    /\ view.kind = "program"
    /\ Len(Visible) = 2

\* the sidebar group the overview is of
GroupShown == CHOOSE i \in 1..Len(sidebar) : sidebar[i].key = view.value

\* the names of the rows handed to the overview, sorted
OverviewNames == Sorted([i \in 1..Len(view.rows) |-> view.rows[i].studiengang])

\* C14 as stated: the overview of a department of the sidebar, the sentinel
\* group included, is handed the rows of just the programs the sidebar lists
\* under it, and never no row.
C14_OverviewOfGroup ==
    (Drawn /\ view.kind = "fachbereich") =>
        /\ HasKey(sidebar, view.value)
        /\ OverviewNames = sidebar[GroupShown].programs
        /\ view.rows # <<>>

====
